---- MODULE Spec2Model ----
(***************************************************************************)
(* Model of tcms_github_app: the GitHub App integration of Kiwi TCMS.      *)
(*   - Integration._rpc_connection / Integration._find_token (issues.py):  *)
(*     selection of the AppInstallation of the current tenant and the      *)
(*     installation access token kept in the shared Django cache;          *)
(*   - GithubKiwiTCMSBot (issues.py): the credential swap of get_repo;     *)
(*   - the webhook endpoint exercised by tests/test_views.py.              *)
(* Workers are request handlers running concurrently against one cache.    *)
(***************************************************************************)
EXTENDS Integers, Sequences, FiniteSets, TLC

\* ---------------------------------------------------------------- bounds
NWorkers == 2
MaxInstallations == 3
MaxTime == 3600
Quantum == 600
MaxPayloads == 2

\* ------------------------------------------------------ program constants
\* cache.set(cache_key, token, 3000)
CacheTTL == 3000
\* "token expires after 1 hr"
TokenLifetime == 3600

Workers == 1..NWorkers
Tenants == {1, 2}
InstallationIds == {1, 2}
Senders == {1, 2}

\* Python's None
None == [none |-> TRUE]

\* rows of AppInstallation, as _rpc_connection reads them
AppInstallation == [tenant_pk : Tenants, installation : InstallationIds, sender : Senders]

\* the UserSocialAuth rows of the current user, in primary key order: a user
\* with no linked identity, with one, and with two
UserSocialAuth == [uid : Senders]
Users == {<< >>, <<[uid |-> 1]>>, <<[uid |-> 2], [uid |-> 1]>>}

VARIABLES
    installations,  \* the AppInstallation table
    bot_auth,       \* UserSocialAuth row of user 'kiwitcms-bot', or None
    cache,          \* django.core.cache: key -> [value, expires]
    now,            \* wall clock, seconds
    pc,             \* per worker: position in Integration._rpc_connection
    request,        \* per worker: self.request, [tenant, user]
    installation,   \* per worker: local variable installation
    token,          \* per worker: local variable token
    exc,            \* per worker: the exception that ended the request
    io,             \* per worker: calls made on cache and gh_app by the request
    client,         \* per worker: the GithubKiwiTCMSBot returned
    repo,           \* per worker: the repository get_repo returned
    payloads,       \* WebhookPayload rows, in insertion order
    hook,           \* the last request POSTed to the webhook endpoint
    response        \* the HTTP response it got

vars == <<installations, bot_auth, cache, now, pc, request, installation, token,
          exc, io, client, repo, payloads, hook, response>>

db == <<installations, bot_auth>>
webhook == <<payloads, hook, response>>

\* ------------------------------------------------------ Django querysets
\* AppInstallation.objects.filter(tenant_pk=...)
FilterTenant(objects, tenant_pk) == {i \in objects : i.tenant_pk = tenant_pk}

\* mutant: the uid compared with the installation id instead of the sender
FilterSenderWrongField(qs, uid) == {i \in qs : i.installation = uid}

\* installations.filter(sender=social_user.uid)
FilterSender(qs, uid) == {i \in qs : i.sender = uid}

\* QuerySet.count()
Count(qs) == Cardinality(qs)

\* QuerySet.first() of a queryset of AppInstallation
First(qs) == IF qs = {} THEN None ELSE CHOOSE i \in qs : TRUE

\* self.request.user.social_auth.first()
SocialAuthFirst(user) == IF Len(user) = 0 THEN None ELSE user[1]

\* Python truthiness of an object that is None or an instance
Truthy(v) == v /= None

\* ------------------------------------------------------------ the cache
\* cache_key = "token-for-%d" % installation.installation
CacheKey(installation_id) == <<"token-for-", installation_id>>

\* mutant: the expiry comparison inverted
CacheGetInverted(c, key, t) ==
    IF key \in DOMAIN c /\ t >= c[key].expires THEN c[key].value ELSE None

\* mutant: entries never expire
CacheGetNoExpiry(c, key, t) ==
    IF key \in DOMAIN c THEN c[key].value ELSE None

\* cache.get(key): the value while the entry is unexpired, else None
CacheGet(c, key, t) ==
    IF key \in DOMAIN c /\ t < c[key].expires THEN c[key].value ELSE None

\* mutant: the timeout argument dropped, Django's default of 300 seconds used
CacheSetDefaultTimeout(c, key, value, timeout, t) ==
    [k \in DOMAIN c \cup {key} |->
        IF k = key THEN [value |-> value, expires |-> t + 300] ELSE c[k]]

\* cache.set(key, value, timeout)
CacheSet(c, key, value, timeout, t) ==
    [k \in DOMAIN c \cup {key} |->
        IF k = key THEN [value |-> value, expires |-> t + timeout] ELSE c[k]]

\* gh_app.get_access_token(installation_id).token, issued at time t
AccessToken(installation_id, t) == [installation |-> installation_id, issued |-> t]

NoIO == [gets |-> 0, calls |-> 0, sets |-> 0]

\* ------------------------------------------------- Integration._rpc_connection
\* mutant: the sender filter applied whatever the number of installations
CandidatesAlwaysNarrowed(objects, req) ==
    LET found == {i \in objects : i.tenant_pk = req.tenant}
    IN  IF Len(req.user) > 0
        THEN {i \in found : i.sender = req.user[1].uid}
        ELSE found

\* lines 116-123: the installations left after the optional narrowing
Candidates(objects, req) ==
    LET found == FilterTenant(objects, req.tenant)
        social_user == SocialAuthFirst(req.user)
    IN  IF Count(found) > 1 /\ Truthy(social_user)
        THEN FilterSender(found, social_user.uid)
        ELSE found

\* a request arrives at a worker: self.request is set
Begin(w) ==
    /\ pc[w] = "idle"
    /\ \E t \in Tenants, u \in Users :
        request' = [request EXCEPT ![w] = [tenant |-> t, user |-> u]]
    /\ pc' = [pc EXCEPT ![w] = "rpc"]
    /\ UNCHANGED <<db, cache, now, installation, token, exc, io, client, repo, webhook>>

\* mutant: only an empty queryset raises; of several the first is taken
ResolveFirstOfMany(w) ==
    /\ pc[w] = "rpc"
    /\ LET qs == Candidates(installations, request[w])
       IN  IF Count(qs) = 0
           THEN /\ exc' = [exc EXCEPT ![w] = "Cannot find GitHub App installation"]
                /\ pc' = [pc EXCEPT ![w] = "raised"]
                /\ UNCHANGED installation
           ELSE /\ installation' = [installation EXCEPT ![w] = First(qs)]
                /\ pc' = [pc EXCEPT ![w] = "find_token"]
                /\ UNCHANGED exc
    /\ UNCHANGED <<db, cache, now, request, token, io, client, repo, webhook>>

\* lines 116-128
Resolve(w) ==
    /\ pc[w] = "rpc"
    /\ LET qs == Candidates(installations, request[w])
       IN  IF Count(qs) /= 1
           THEN /\ exc' = [exc EXCEPT ![w] = "Cannot find GitHub App installation"]
                /\ pc' = [pc EXCEPT ![w] = "raised"]
                /\ UNCHANGED installation
           ELSE /\ installation' = [installation EXCEPT ![w] = First(qs)]
                /\ pc' = [pc EXCEPT ![w] = "find_token"]
                /\ UNCHANGED exc
    /\ UNCHANGED <<db, cache, now, request, token, io, client, repo, webhook>>

\* ------------------------------------------------- Integration._find_token
\* lines 103-106 and, on a hit, 112
FindTokenLookup(w) ==
    /\ pc[w] = "find_token"
    /\ LET cached == CacheGet(cache, CacheKey(installation[w].installation), now)
       IN  /\ token' = [token EXCEPT ![w] = cached]
           /\ pc' = [pc EXCEPT ![w] = IF ~Truthy(cached) THEN "fetch" ELSE "client"]
    /\ io' = [io EXCEPT ![w].gets = @ + 1]
    /\ UNCHANGED <<db, cache, now, request, installation, exc, client, repo, webhook>>

\* lines 107-108: the issuer answers
FindTokenFetch(w) ==
    /\ pc[w] = "fetch"
    /\ token' = [token EXCEPT ![w] = AccessToken(installation[w].installation, now)]
    /\ io' = [io EXCEPT ![w].calls = @ + 1]
    /\ pc' = [pc EXCEPT ![w] = "store"]
    /\ UNCHANGED <<db, cache, now, request, installation, exc, client, repo, webhook>>

\* mutant: the exception swallowed, None cached and returned
FindTokenFetchFailsSwallowed(w) ==
    /\ pc[w] = "fetch"
    /\ io' = [io EXCEPT ![w].calls = @ + 1, ![w].sets = @ + 1]
    /\ cache' = [k \in DOMAIN cache \cup {<<"token-for-", installation[w].installation>>} |->
                    IF k = <<"token-for-", installation[w].installation>>
                    THEN [value |-> None, expires |-> now + CacheTTL] ELSE cache[k]]
    /\ pc' = [pc EXCEPT ![w] = "client"]
    /\ UNCHANGED <<db, now, request, installation, token, exc, client, repo, webhook>>

\* line 107: the issuer call raises
FindTokenFetchFails(w) ==
    /\ pc[w] = "fetch"
    /\ io' = [io EXCEPT ![w].calls = @ + 1]
    /\ exc' = [exc EXCEPT ![w] = "GithubException"]
    /\ pc' = [pc EXCEPT ![w] = "raised"]
    /\ UNCHANGED <<db, cache, now, request, installation, token, client, repo, webhook>>

\* lines 110-112
FindTokenStore(w) ==
    /\ pc[w] = "store"
    /\ cache' = CacheSet(cache, CacheKey(installation[w].installation),
                         token[w], CacheTTL, now)
    /\ io' = [io EXCEPT ![w].sets = @ + 1]
    /\ pc' = [pc EXCEPT ![w] = "client"]
    /\ UNCHANGED <<db, now, request, installation, token, exc, client, repo, webhook>>

\* ------------------------------------------------------ GithubKiwiTCMSBot
\* github.Requester.Requester(login_or_token, ...)
Requester(login_or_token) == [login_or_token |-> login_or_token]

\* GithubKiwiTCMSBot.__init__: the requester of the client, and bot_requester
NewBot(login_or_token, social_user) ==
    [requester |-> Requester(login_or_token),
     bot_requester |-> IF Truthy(social_user)
                       THEN Requester(social_user.extra_data.access_token)
                       ELSE None]

\* line 134
Construct(w) ==
    /\ pc[w] = "client"
    /\ client' = [client EXCEPT ![w] = NewBot(token[w], bot_auth)]
    /\ pc' = [pc EXCEPT ![w] = "connected"]
    /\ UNCHANGED <<db, cache, now, request, installation, token, exc, io, repo, webhook>>

\* mutant: the test of repo.private inverted
RepoRequesterOnPrivate(bot, private) ==
    IF private /\ Truthy(bot.bot_requester) THEN bot.bot_requester ELSE bot.requester

\* GithubKiwiTCMSBot.get_repo: the requester of the repository returned
RepoRequester(bot, private) ==
    IF (~private) /\ Truthy(bot.bot_requester) THEN bot.bot_requester ELSE bot.requester

GetRepo(w) ==
    /\ pc[w] = "connected"
    /\ \E private \in BOOLEAN :
        repo' = [repo EXCEPT ![w] = [private |-> private,
                                     requester |-> RepoRequester(client[w], private)]]
    /\ pc' = [pc EXCEPT ![w] = "done"]
    /\ UNCHANGED <<db, cache, now, request, installation, token, exc, io, client, webhook>>

\* the request is over (returned or raised); the worker takes the next one
Respond(w) ==
    /\ pc[w] \in {"done", "raised"}
    /\ pc' = [pc EXCEPT ![w] = "idle"]
    /\ request' = [request EXCEPT ![w] = None]
    /\ installation' = [installation EXCEPT ![w] = None]
    /\ token' = [token EXCEPT ![w] = None]
    /\ exc' = [exc EXCEPT ![w] = "none"]
    /\ io' = [io EXCEPT ![w] = NoIO]
    /\ client' = [client EXCEPT ![w] = None]
    /\ repo' = [repo EXCEPT ![w] = None]
    /\ UNCHANGED <<db, cache, now, webhook>>

\* time passes
Tick ==
    /\ now + Quantum <= MaxTime
    /\ now' = now + Quantum
    /\ UNCHANGED <<db, cache, pc, request, installation, token, exc, io, client,
                   repo, webhook>>

\* ------------------------------------------------------ webhook endpoint
\* settings.KIWI_GITHUB_APP_SECRET
Secret == "KIWI_GITHUB_APP_SECRET"

\* github.calculate_signature(secret, body): a keyed tag of the raw body
CalculateSignature(secret, body) == [hmac_key |-> secret, msg |-> body]

\* the payload of test_hook_ping and test_without_signature_header
PingBody == [zen |-> "Mind your words, they are important.", sender |-> "atodorov"]
EventBody == [action |-> "created", sender |-> "atodorov"]
Bodies == {PingBody, EventBody}
Events == {"ping", "installation"}

\* X-Hub-Signature: absent, computed with the secret, or with another key
SignatureHeaders ==
    {None} \cup {CalculateSignature(k, b) : k \in {Secret, "other"}, b \in Bodies}

\* a row of WebhookPayload
WebhookPayload(action, sender, received_on, payload) ==
    [action |-> action, sender |-> sender, received_on |-> received_on,
     payload |-> payload]

\* mutant: a request without the header passes
VerifySignatureOptional(secret, raw_body, signature) ==
    Truthy(signature) => signature = CalculateSignature(secret, raw_body)

\* mutant: the signature computed with another key than the secret given
VerifySignatureOtherKey(secret, raw_body, signature) ==
    /\ Truthy(signature)
    /\ signature = CalculateSignature("other", raw_body)

\* verify_signature(secret, raw_body, signature)
VerifySignature(secret, raw_body, signature) ==
    /\ Truthy(signature)
    /\ signature = CalculateSignature(secret, raw_body)

HttpResponseForbidden == [status_code |-> 403, content |-> ""]
HttpResponse(content) == [status_code |-> 200, content |-> content]

\* the row the endpoint stores for a request
PayloadRow(req, t) ==
    WebhookPayload(IF "action" \in DOMAIN req.body THEN req.body.action ELSE "",
                   req.body.sender, t, req.body)

\* POST to the webhook endpoint
WebHook ==
    \E signature \in SignatureHeaders, event \in Events, body \in Bodies :
        LET req == [signature |-> signature, event |-> event, body |-> body]
        IN  /\ hook' = req
            /\ IF ~VerifySignature(Secret, body, signature)
               THEN /\ response' = HttpResponseForbidden
                    /\ UNCHANGED payloads
               ELSE IF event = "ping"
               THEN /\ response' = HttpResponse("pong")
                    /\ UNCHANGED payloads
               ELSE /\ Len(payloads) < MaxPayloads
                    /\ payloads' = Append(payloads, PayloadRow(req, now))
                    /\ response' = HttpResponse("ok")
            /\ UNCHANGED <<db, cache, now, pc, request, installation, token, exc,
                           io, client, repo>>

\* --------------------------------------------------------- specifications
\* the OAuth token of user 'kiwitcms-bot'
BotToken == [oauth |-> "kiwitcms-bot"]
BotAuths == {None, [extra_data |-> [access_token |-> BotToken]]}

Tables == {t \in SUBSET AppInstallation : Cardinality(t) <= MaxInstallations}

\* one public app installed by two contributors of tenant 1, none on tenant 2
Deployment == {[tenant_pk |-> 1, installation |-> 1, sender |-> 1],
               [tenant_pk |-> 1, installation |-> 2, sender |-> 2]}

InitLocals ==
    /\ cache = << >>
    /\ now = 0
    /\ pc = [w \in Workers |-> "idle"]
    /\ request = [w \in Workers |-> None]
    /\ installation = [w \in Workers |-> None]
    /\ token = [w \in Workers |-> None]
    /\ exc = [w \in Workers |-> "none"]
    /\ io = [w \in Workers |-> NoIO]
    /\ client = [w \in Workers |-> None]
    /\ repo = [w \in Workers |-> None]
    /\ payloads = << >>
    /\ hook = None
    /\ response = None

\* Integration._rpc_connection, lines 114-133: up to the return of _find_token
RpcConnection(w) ==
    \/ Begin(w)
    \/ Resolve(w)
    \/ FindTokenLookup(w)
    \/ FindTokenFetch(w)
    \/ FindTokenFetchFails(w)
    \/ FindTokenStore(w)

\* Spec: concurrent requests of one deployment against the shared cache
Init ==
    /\ installations = Deployment
    /\ bot_auth = None
    /\ InitLocals

Next ==
    \/ \E w \in Workers : RpcConnection(w)
    \/ Tick

Spec == Init /\ [][Next]_vars

\* SpecResolve: one request on any AppInstallation table, up to get_repo
InitResolve ==
    /\ installations \in Tables
    /\ bot_auth \in BotAuths
    /\ InitLocals

NextResolve ==
    \/ RpcConnection(1)
    \/ Construct(1)
    \/ GetRepo(1)
    \/ Respond(1)

SpecResolve == InitResolve /\ [][NextResolve]_vars

\* SpecWebhook: requests POSTed to the webhook endpoint
NextWebhook ==
    \/ WebHook
    \/ Tick

SpecWebhook == Init /\ [][NextWebhook]_vars

\* ------------------------------------------------------------------ claims
\* the entry stored for an installation id is present and unexpired
FreshEntry(id) ==
    /\ <<"token-for-", id>> \in DOMAIN cache
    /\ now < cache[<<"token-for-", id>>].expires

\* worker w takes the step in which _find_token reads the cache
LookupStep(w) == pc[w] = "find_token" /\ pc'[w] /= "find_token"

\* worker w takes the step in which _find_token returns its token
ReturnStep(w) == pc[w] \in {"find_token", "store"} /\ pc'[w] = "client"

\* C1: a lookup that finds a present, unexpired entry under 'token-for-<id>'
\* returns the token cached for that installation id at once, with no issuer
\* call and no cache write.
CacheHitReturnsCached ==
    [][\A w \in Workers :
        (LookupStep(w) /\ FreshEntry(installation[w].installation)) =>
            /\ pc'[w] = "client"
            /\ token'[w] = cache[<<"token-for-", installation[w].installation>>].value
            /\ token'[w].installation = installation[w].installation
            /\ cache' = cache
            /\ io'[w] = [gets |-> 1, calls |-> 0, sets |-> 0]]_vars

\* C1 witness: a request served from an entry another request stored
CacheHitHappened ==
    \E w \in Workers, v \in Workers :
        /\ pc[w] = "client" /\ io[w].calls = 0 /\ io[w].gets = 1
        /\ pc[v] = "client" /\ io[v].sets = 1
        /\ token[w] = token[v]

\* C2: a lookup that finds no entry, or an expired one, goes on to call the
\* issuer once for that installation, stores the issued token under that
\* installation's key for 3000 seconds (less than the 3600 of its lifetime),
\* leaves every other key alone and returns the token it stored.
CacheMissFetchesAndStores ==
    [][\A w \in Workers :
        /\ (LookupStep(w) /\ ~FreshEntry(installation[w].installation)) =>
                pc'[w] = "fetch" /\ cache' = cache /\ io'[w].calls = 0
        /\ (pc[w] = "fetch" /\ pc'[w] = "store") =>
                /\ token'[w] = [installation |-> installation[w].installation,
                                 issued |-> now]
                /\ io'[w] = [gets |-> 1, calls |-> 1, sets |-> 0]
                /\ cache' = cache
        /\ (pc[w] = "store" /\ pc'[w] /= "store") =>
                /\ pc'[w] = "client"
                /\ token'[w] = token[w]
                /\ io'[w] = [gets |-> 1, calls |-> 1, sets |-> 1]
                /\ DOMAIN cache' = DOMAIN cache
                                     \cup {<<"token-for-", installation[w].installation>>}
                /\ \A k \in DOMAIN cache' :
                     cache'[k] = IF k = <<"token-for-", installation[w].installation>>
                                 THEN [value |-> token[w], expires |-> now + 3000]
                                 ELSE cache[k]
                /\ cache'[<<"token-for-", installation[w].installation>>].expires - now
                     < TokenLifetime]_vars

\* C2 witness: an entry expired, and the next request for that installation
\* fetched and stored a new token
CacheMissAfterExpiry ==
    \E w \in Workers, v \in Workers :
        /\ pc[v] = "client" /\ io[v].sets = 1
        /\ pc[w] = "client" /\ io[w] = [gets |-> 1, calls |-> 1, sets |-> 1]
        /\ token[w].installation = token[v].installation
        /\ token[w].issued >= token[v].issued + 3000
        /\ cache[<<"token-for-", token[w].installation>>]
             = [value |-> token[w], expires |-> token[w].issued + 3000]

\* C3 as claimed: whatever the interleaving and the delay between fetch and
\* write, a cached entry is never served after the real expiry of its token,
\* 3600 seconds after the token was issued.
CachedEntryNeverServedAfterExpiry ==
    [][\A w \in Workers :
        (pc[w] = "find_token" /\ pc'[w] = "client") =>
            now' < token'[w].issued + 3600]_vars

\* the token worker w is about to return reached the cache (or is about to)
\* at most 600 seconds, the margin 3600 - 3000, after it was issued
WrittenWithinMargin(w) ==
    IF pc[w] = "store"
    THEN now - token[w].issued <= 600
    ELSE cache[<<"token-for-", installation[w].installation>>].expires
            <= cache[<<"token-for-", installation[w].installation>>].value.issued + 3600

\* C3 amended: every token _find_token returns is a token of the requested
\* installation; a cached entry is never served at or after its expiry time;
\* and the token is unexpired when returned provided it was written to the
\* cache at most 600 seconds after it was issued.
ReturnedTokenValidWithinMargin ==
    [][\A w \in Workers :
        ReturnStep(w) =>
            /\ token'[w].installation = installation[w].installation
            /\ pc[w] = "find_token" =>
                   /\ FreshEntry(installation[w].installation)
                   /\ token'[w]
                        = cache[<<"token-for-", installation[w].installation>>].value
            /\ WrittenWithinMargin(w) => now' < token'[w].issued + 3600]_vars

\* C3 witness: two concurrent misses on one installation both called the
\* issuer and both wrote; the token issued first was written last, 600
\* seconds after its issuance, and is the one the cache holds
RacingMissesBothWrote ==
    \E w \in Workers, v \in Workers :
        /\ pc[w] = "client" /\ io[w].sets = 1
        /\ pc[v] = "client" /\ io[v].sets = 1
        /\ token[w].installation = token[v].installation
        /\ token[v].issued < token[w].issued
        /\ cache[<<"token-for-", token[v].installation>>]
             = [value |-> token[v], expires |-> token[v].issued + 600 + 3000]

\* C7: when the issuer call fails the request ends with that exception after
\* exactly one issuer call and no cache write: the failing step leaves the
\* cache as it was, so what was a miss is still a miss.
IssuerFailurePropagates ==
    /\ [][\A w \in Workers :
            (pc[w] = "fetch" /\ pc'[w] \notin {"fetch", "store"}) =>
                /\ pc'[w] = "raised"
                /\ exc'[w] = "GithubException"
                /\ cache' = cache
                /\ FreshEntry(installation[w].installation)'
                     = FreshEntry(installation[w].installation)]_vars
    /\ [](\A w \in Workers :
            (pc[w] = "raised" /\ exc[w] = "GithubException") =>
                /\ io[w] = [gets |-> 1, calls |-> 1, sets |-> 0]
                /\ token[w] = None)

\* C7 witness: after a failed request the next lookup for that installation
\* missed again
IssuerFailedThenMiss ==
    \E w \in Workers, v \in Workers :
        /\ pc[w] = "raised" /\ exc[w] = "GithubException"
        /\ pc[v] = "fetch"
        /\ installation[v].installation = installation[w].installation
        /\ cache = << >>

\* the installations of the tenant of worker w's request
OfTenant(w) == {i \in installations : i.tenant_pk = request[w].tenant}

\* those of them whose sender is the linked identity of the current user
MatchingSender(w) ==
    {i \in OfTenant(w) : Len(request[w].user) > 0 /\ i.sender = request[w].user[1].uid}

\* worker w is past the selection of lines 116-128
Resolved(w) == pc[w] \notin {"idle", "rpc"}

InstallationError(w) ==
    pc[w] = "raised" /\ exc[w] = "Cannot find GitHub App installation"

\* C4: a request on a tenant with exactly one installation gets that
\* installation, whoever the current user is.
SingleInstallationReturned ==
    \A w \in Workers :
        (Resolved(w) /\ Cardinality(OfTenant(w)) = 1) =>
            /\ ~InstallationError(w)
            /\ installation[w] \in OfTenant(w)

\* C4 witness: the only installation of the tenant was selected for a user
\* whose linked identity is not its sender
SingleInstallationOtherSender ==
    \E w \in Workers :
        /\ Resolved(w) /\ Cardinality(OfTenant(w)) = 1
        /\ Len(request[w].user) > 0
        /\ installation[w] \in OfTenant(w)
        /\ installation[w].sender /= request[w].user[1].uid

\* C5: on a tenant with more than one installation and a user with a linked
\* identity, the request gets the installation whose sender is that identity
\* when exactly one has it; an installation selected always belongs to the
\* tenant of the request.
NarrowedBySender ==
    \A w \in Workers :
        Resolved(w) =>
            /\ (Cardinality(OfTenant(w)) > 1 /\ Len(request[w].user) > 0
                    /\ Cardinality(MatchingSender(w)) = 1) =>
                   /\ ~InstallationError(w)
                   /\ installation[w] \in MatchingSender(w)
            /\ installation[w] /= None => installation[w].tenant_pk = request[w].tenant

\* C5 witness: of two installations of the tenant, the one installed by the
\* first linked identity of the user was selected
NarrowedToOwnInstallation ==
    \E w \in Workers :
        /\ Resolved(w) /\ Cardinality(OfTenant(w)) = 2
        /\ Len(request[w].user) = 2
        /\ MatchingSender(w) = {installation[w]}

\* C6: the request raises 'Cannot find GitHub App installation' exactly when
\* the tenant has no installation, or several and the user has no linked
\* identity, or several and not exactly one of them has the identity as
\* sender; it raises before any cache lookup, cache write or issuer call, in
\* a step that leaves the cache as it was.
ResolverErrorCases ==
    /\ [](\A w \in Workers :
            Resolved(w) =>
                /\ InstallationError(w) <=>
                       \/ Cardinality(OfTenant(w)) = 0
                       \/ Cardinality(OfTenant(w)) > 1 /\ Len(request[w].user) = 0
                       \/ Cardinality(OfTenant(w)) > 1 /\ Len(request[w].user) > 0
                            /\ Cardinality(MatchingSender(w)) /= 1
                /\ InstallationError(w) =>
                       /\ io[w] = [gets |-> 0, calls |-> 0, sets |-> 0]
                       /\ token[w] = None /\ installation[w] = None)
    /\ [][\A w \in Workers :
            (pc[w] = "rpc" /\ pc'[w] = "raised") => cache' = cache]_vars

\* C6 witness: with a token in the cache, a request raised because two
\* installations of the tenant have the identity of the user as sender
AmbiguousAfterNarrowing ==
    \E w \in Workers :
        /\ InstallationError(w)
        /\ Cardinality(MatchingSender(w)) = 2
        /\ cache /= << >>

\* C10: the repository get_repo returns uses the credential of
\* @kiwitcms-bot exactly when it is public and the bot has a social-auth row;
\* otherwise it keeps the installation token the client was built with.
CredentialSwap ==
    \A w \in Workers :
        pc[w] = "done" =>
            /\ repo[w].requester = [login_or_token |-> BotToken]
                   <=> (~repo[w].private /\ bot_auth /= None)
            /\ repo[w].requester /= [login_or_token |-> BotToken]
                   => repo[w].requester = [login_or_token |-> token[w]]

\* C10 witness: a public repository got the bot credential
PublicRepoUsesBot ==
    \E w \in Workers :
        /\ pc[w] = "done" /\ ~repo[w].private /\ bot_auth /= None
        /\ repo[w].requester = [login_or_token |-> BotToken]
        /\ client[w].requester = [login_or_token |-> token[w]]

\* the request carries the signature of its body under the app secret
SignedRequest(h) ==
    /\ h /= None
    /\ h.signature = [hmac_key |-> "KIWI_GITHUB_APP_SECRET", msg |-> h.body]

\* the request carries no signature header, or a signature that is not that
UnsignedRequest(h) ==
    /\ h /= None
    /\ h.signature /= [hmac_key |-> "KIWI_GITHUB_APP_SECRET", msg |-> h.body]

\* C8: a webhook request without a signature header, or with an invalid
\* signature, is answered 403 Forbidden and adds no WebhookPayload row.
SignatureGate ==
    [][UnsignedRequest(hook') =>
          /\ response'.status_code = 403
          /\ payloads' = payloads]_vars

\* C8 witness: a request without the header was refused after another
\* request had been stored
UnsignedRejected ==
    /\ hook /= None
    /\ hook.signature = None
    /\ response.status_code = 403
    /\ Len(payloads) = 1

\* C9: a validly signed 'ping' is answered 200 with body 'pong'; any other
\* validly signed event is stored as a WebhookPayload row holding its body.
PingAnsweredOthersStored ==
    [][(SignedRequest(hook') /\ now' = now) =>
          IF hook'.event = "ping"
          THEN response' = [status_code |-> 200, content |-> "pong"]
          ELSE /\ Len(payloads') = Len(payloads) + 1
               /\ SubSeq(payloads', 1, Len(payloads)) = payloads
               /\ payloads'[Len(payloads')].payload = hook'.body
               /\ payloads'[Len(payloads')].sender = hook'.body.sender
               /\ payloads'[Len(payloads')].received_on = now]_vars

\* C9 witness: the ping of test_hook_ping answered with pong
PingPonged ==
    /\ SignedRequest(hook)
    /\ hook.event = "ping"
    /\ hook.body = [zen |-> "Mind your words, they are important.",
                     sender |-> "atodorov"]
    /\ response = [status_code |-> 200, content |-> "pong"]
    /\ Len(payloads) = 1

====
